---- MODULE Spec2Model ----
(***************************************************************************)
(* The usage rate limiter of ImagiNarrate (src/app.py): the tracker file   *)
(* usage_tracker.json, init_usage_tracking, check_rate_limit,              *)
(* increment_usage and the part of main that drives them.                  *)
(*                                                                         *)
(* Each caller is one Streamlit script run; the callers share the tracker  *)
(* file and nothing else.  Every step of a function that touches the file  *)
(* or the clock is one action (the label is the source line), so that the  *)
(* interleavings the operating system allows are the behaviours of Spec.   *)
(* Time is counted in ticks; TicksPerHour ticks make the hour of           *)
(* timedelta(hours=1).                                                     *)
(***************************************************************************)
EXTENDS Integers, Sequences, FiniteSets, TLC

VARIABLES
    clock,          \* datetime.now(), in ticks
    file,           \* the content of usage_tracker.json
    pc,             \* per caller: the source line it is about to execute
    stack,          \* per caller: the lines its pending calls return to
    data,           \* per caller: the local `data` of the running function
    now,            \* per caller: the local `now` of the running function
    ret,            \* per caller: what its last call returned or raised
    verdict,        \* per caller: main's locals is_allowed, current_usage
    rd,             \* history: per caller, the record as json.load returned it
    recorded,       \* history: increment_usage calls completed in this window
    lastFull,       \* history: the last content a writer flushed completely
    calls,          \* the number of calls made so far
    serial,         \* whether the server runs one script at a time
    before          \* history, for runs made one at a time: per caller, the file
                    \* when its click arrived

vars == <<clock, file, pc, stack, data, now, ret, verdict, rd, recorded, lastFull, calls, serial, before>>

\* ------------------------------------------------------------- constants

\* The quota: data["usage_count"] >= 3.
Q == 3

\* The resolution of the clock.
TicksPerHour == 2

\* The window: timedelta(hours=1).
W == 1 * TicksPerHour

\* The clock stops here.
MaxTime == 3

\* The calls explored when script runs overlap, and when they do not.
MaxCalls == 2

MaxSerialCalls == 4

\* Two sessions.
Callers == {"A", "B"}

\* ------------------------------------------------------------ file content

\* datetime.isoformat() and datetime.fromisoformat(): the text form of a
\* timestamp and its parse; naive datetimes round-trip exactly.
isoformat(t) == <<"iso", t>>

fromisoformat(s) == s[2]

\* A content of the tracker file that is not a usage record: "missing" (no
\* file), "truncated" (just opened for writing, nothing flushed yet),
\* "garbage" (text json.load rejects), "wrongshape" (valid JSON without the
\* record's keys, such as {}).  size orders contents by their length in bytes.
NoContent(k, n) ==
    [kind |-> k, size |-> n, usage_count |-> 0,
     last_reset |-> isoformat(0), usage_history |-> <<>>]

\* The JSON text of a usage record; it grows with every history entry.
Rec(c, lr, h) ==
    [kind |-> "record", size |-> 1 + Len(h), usage_count |-> c,
     last_reset |-> lr, usage_history |-> h]

NoData == NoContent("none", 0)

\* open(..., "w"): the file exists and is empty until the writer flushes.
OpenForWrite == NoContent("truncated", 0)

\* json.dump + close on a descriptor opened earlier: the text is written from
\* offset 0 without truncating again, so a longer text another writer flushed
\* in between keeps its tail and the file no longer parses.
Dump(cur, new) ==
    IF cur.size > new.size THEN NoContent("garbage", cur.size) ELSE new

\* What open(..., "r") + json.load raise for a content ("ok": they return it).
LoadOutcome(f) ==
    CASE f.kind = "missing" -> "FileNotFoundError"
      [] f.kind \in {"truncated", "garbage"} -> "JSONDecodeError"
      [] OTHER -> "ok"

\* WindowElapsed gone wrong (to see that the properties notice): the
\* boundary excluded; the window a tick too short.
WindowElapsedStrict(last_reset, t) == t - last_reset > W

WindowElapsedEarly(last_reset, t) == t - last_reset >= W - 1

\* now - last_reset >= timedelta(hours=1)
WindowElapsed(last_reset, t) == t - last_reset >= W

\* The reset of lines 46-48 / 75-77.
ResetRecord(t) == Rec(0, isoformat(t), <<>>)

\* LimitExceeded gone wrong: the quota itself still allowed.
LimitExceededStrict(count) == count > Q

\* data["usage_count"] >= 3 decides the verdict.
LimitExceeded(count) == count >= Q

\* Increment gone wrong: the use counted but not logged; the use logged but
\* the count overwritten with 1.
IncrementNoLog(d, t) == Rec(d.usage_count + 1, d.last_reset, d.usage_history)

IncrementFromOne(d, t) ==
    Rec(1, d.last_reset,
        Append(d.usage_history,
               [timestamp |-> isoformat(t), action |-> "generate_story"]))

\* Increment gone wrong: a count that stops at the quota; a window that
\* slides to the time of the use.
IncrementCapped(d, t) ==
    IF d.usage_count >= Q
      THEN d
      ELSE Rec(d.usage_count + 1, d.last_reset,
               Append(d.usage_history,
                      [timestamp |-> isoformat(t), action |-> "generate_story"]))

IncrementSliding(d, t) ==
    Rec(d.usage_count + 1, isoformat(t),
        Append(d.usage_history,
               [timestamp |-> isoformat(t), action |-> "generate_story"]))

\* Lines 80-84: count the use and log it.
Increment(d, t) ==
    Rec(d.usage_count + 1, d.last_reset,
        Append(d.usage_history,
               [timestamp |-> isoformat(t), action |-> "generate_story"]))

\* ------------------------------------------------------------ results

NoRet ==
    [kind |-> "none", allowed |-> FALSE, count |-> 0, exc |-> "none", fn |-> "none"]

\* The pair check_rate_limit returns.
CheckRet(a, c) ==
    [kind |-> "check", allowed |-> a, count |-> c, exc |-> "none", fn |-> "none"]

\* The count increment_usage returns.
RecordRet(c) ==
    [kind |-> "record", allowed |-> FALSE, count |-> c, exc |-> "none", fn |-> "none"]

\* Exception e, raised in function f and caught by nobody.
Raised(e, f) ==
    [kind |-> "raised", allowed |-> FALSE, count |-> 0, exc |-> e, fn |-> f]

NoVerdict == [is_allowed |-> FALSE, current_usage |-> 0, set |-> FALSE]

\* ------------------------------------------------------------ control

\* A call: run from line `entry`, come back to line `back`.
Call(p, entry, back) ==
    /\ pc' = [pc EXCEPT ![p] = entry]
    /\ stack' = [stack EXCEPT ![p] = <<back>> \o @]

\* A return: the locals of the function die and main, when it made the call,
\* goes on with the value; a call made on its own is over.
Return(p, r) ==
    /\ pc' = [pc EXCEPT ![p] = Head(stack[p])]
    /\ stack' = [stack EXCEPT ![p] = Tail(@)]
    /\ ret' = [ret EXCEPT ![p] = IF Head(stack[p]) = "idle" THEN NoRet ELSE r]
    /\ data' = [data EXCEPT ![p] = NoData]
    /\ rd' = [rd EXCEPT ![p] = NoData]
    /\ now' = [now EXCEPT ![p] = 0]

\* An exception nobody catches unwinds every pending call; main's locals
\* die with the run (main_aborted).
Raise(p, e, f) ==
    /\ pc' = [pc EXCEPT ![p] = "raised"]
    /\ stack' = [stack EXCEPT ![p] = <<>>]
    /\ ret' = [ret EXCEPT ![p] = Raised(e, f)]
    /\ data' = [data EXCEPT ![p] = NoData]
    /\ rd' = [rd EXCEPT ![p] = NoData]
    /\ now' = [now EXCEPT ![p] = 0]
    /\ UNCHANGED verdict

Goto(p, l) == pc' = [pc EXCEPT ![p] = l]

\* ------------------------------------------------------------ Init

\* The uses logged at tick t: n entries.
Uses(n, t) == [i \in 1..n |-> [timestamp |-> isoformat(t), action |-> "generate_story"]]

\* What the service may find when it starts at tick 0: no file, a file that
\* is no JSON text, a JSON text that is no usage record, or the record of a
\* window that has just begun, with the uses made in it so far.
InitialFiles ==
    { NoContent("missing", 0), NoContent("garbage", 1), NoContent("wrongshape", 1) }
      \cup { Rec(n, isoformat(0), Uses(n, 0)) : n \in 0..Q }

Start ==
    /\ clock = 0
    /\ file \in InitialFiles
    /\ pc = [p \in Callers |-> "idle"]
    /\ stack = [p \in Callers |-> <<>>]
    /\ data = [p \in Callers |-> NoData]
    /\ now = [p \in Callers |-> 0]
    /\ ret = [p \in Callers |-> NoRet]
    /\ verdict = [p \in Callers |-> NoVerdict]
    /\ rd = [p \in Callers |-> NoData]
    /\ recorded = file.usage_count
    /\ lastFull = file
    /\ calls = 0
    /\ before = [p \in Callers |-> NoData]

\* Concurrent script runs (one per browser session).
Init == Start /\ serial = FALSE

\* One script run at a time.
SerialInit == Start /\ serial = TRUE

\* ------------------------------------------------------------ the clock

Tick ==
    /\ clock < MaxTime
    /\ clock' = clock + 1
    /\ UNCHANGED <<file, pc, stack, data, now, ret, verdict, rd, recorded, lastFull, calls, serial, before>>

\* ------------------------------------------------------------ entry points

\* A call may start while the budget of calls lasts; a server that runs one
\* script at a time starts it only when no other is running.
MayStart(p) ==
    /\ calls < (IF serial THEN MaxSerialCalls ELSE MaxCalls)
    /\ serial => \A q \in Callers \ {p} : pc[q] = "idle"

\* A caller invokes check_rate_limit() on its own.
call_check_rate_limit(p) ==
    /\ pc[p] = "idle"
    /\ MayStart(p)
    /\ calls' = calls + 1
    /\ Call(p, "c34", "idle")
    /\ UNCHANGED <<clock, file, data, now, ret, verdict, rd, recorded, lastFull, serial, before>>

\* A caller invokes increment_usage() on its own.
call_increment_usage(p) ==
    /\ pc[p] = "idle"
    /\ MayStart(p)
    /\ calls' = calls + 1
    /\ Call(p, "u62", "idle")
    /\ UNCHANGED <<clock, file, data, now, ret, verdict, rd, recorded, lastFull, serial, before>>

\* main() line 208: every script run starts with init_usage_tracking().
main_init_usage_tracking(p) ==
    /\ pc[p] = "idle"
    /\ MayStart(p)
    /\ calls' = calls + 1
    /\ Call(p, "i27", "idle")
    /\ UNCHANGED <<clock, file, data, now, ret, verdict, rd, recorded, lastFull, serial, before>>

\* main() lines 251-253: the button was clicked; check before processing.
main_click(p) ==
    /\ pc[p] = "idle"
    /\ MayStart(p)
    /\ calls' = calls + 1
    /\ Call(p, "c34", "m254")
    /\ before' = [before EXCEPT ![p] = IF serial THEN file ELSE NoData]
    /\ UNCHANGED <<clock, file, data, now, ret, verdict, rd, recorded, lastFull, serial>>

\* The script run ends with the traceback on the page.
main_aborted(p) ==
    /\ pc[p] = "raised"
    /\ Goto(p, "idle")
    /\ ret' = [ret EXCEPT ![p] = NoRet]
    /\ verdict' = [verdict EXCEPT ![p] = NoVerdict]
    /\ before' = [before EXCEPT ![p] = NoData]
    /\ UNCHANGED <<clock, file, stack, data, now, rd, recorded, lastFull, calls, serial>>

\* ------------------------------------------------------------ init_usage_tracking

\* Line 27: nothing to do when the file exists.
init_usage_tracking_exists(p) ==
    /\ pc[p] = "i27"
    /\ IF file.kind # "missing"
         THEN /\ pc' = [pc EXCEPT ![p] = Head(stack[p])]
              /\ stack' = [stack EXCEPT ![p] = Tail(@)]
         ELSE /\ Goto(p, "i28")
              /\ UNCHANGED stack
    /\ UNCHANGED <<clock, file, data, now, ret, verdict, rd, recorded, lastFull, calls, serial, before>>

\* Line 28: open(..., "w").
init_usage_tracking_open(p) ==
    /\ pc[p] = "i28"
    /\ file' = OpenForWrite
    /\ Goto(p, "i29")
    /\ UNCHANGED <<clock, stack, data, now, ret, verdict, rd, recorded, lastFull, calls, serial, before>>

\* Line 29: json.dump of the zero record stamped datetime.now().
init_usage_tracking_dump(p) ==
    /\ pc[p] = "i29"
    /\ file' = Dump(file, ResetRecord(clock))
    /\ lastFull' = file'
    /\ pc' = [pc EXCEPT ![p] = Head(stack[p])]
    /\ stack' = [stack EXCEPT ![p] = Tail(@)]
    /\ UNCHANGED <<clock, data, now, ret, verdict, rd, recorded, calls, serial, before>>

\* ------------------------------------------------------------ check_rate_limit

\* Lines 33-37: load the record; FileNotFoundError and JSONDecodeError lead
\* to init_usage_tracking() and then to line 38.
check_rate_limit_load(p) ==
    /\ pc[p] = "c34"
    /\ IF LoadOutcome(file) = "ok"
         THEN /\ data' = [data EXCEPT ![p] = file]
              /\ rd' = [rd EXCEPT ![p] = file]
              /\ Goto(p, "c41")
              /\ UNCHANGED stack
         ELSE /\ Call(p, "i27", "c38")
              /\ UNCHANGED <<data, rd>>
    /\ UNCHANGED <<clock, file, now, ret, verdict, recorded, lastFull, calls, serial, before>>

\* Line 38: return True, 0.
FreshVerdict == CheckRet(TRUE, 0)

check_rate_limit_return_fresh(p) ==
    /\ pc[p] = "c38"
    /\ Return(p, FreshVerdict)
    /\ UNCHANGED <<clock, file, verdict, recorded, lastFull, calls, serial, before>>

\* Lines 41-48: data["last_reset"] raises KeyError on a content without the
\* key; otherwise read the clock and reset the local record when the hour is
\* over.
check_rate_limit_reset(p) ==
    /\ pc[p] = "c41"
    /\ IF data[p].kind # "record"
         THEN /\ Raise(p, "KeyError", "check_rate_limit")
         ELSE /\ now' = [now EXCEPT ![p] = clock]
              /\ IF WindowElapsed(fromisoformat(data[p].last_reset), clock)
                   THEN /\ data' = [data EXCEPT ![p] = ResetRecord(clock)]
                        /\ Goto(p, "c50")
                   ELSE /\ Goto(p, "c54")
                        /\ UNCHANGED data
              /\ UNCHANGED <<stack, ret, verdict, rd>>
    /\ UNCHANGED <<clock, file, recorded, lastFull, calls, serial, before>>

\* Line 50: open(..., "w").
check_rate_limit_open(p) ==
    /\ pc[p] = "c50"
    /\ file' = OpenForWrite
    /\ Goto(p, "c51")
    /\ UNCHANGED <<clock, stack, data, now, ret, verdict, rd, recorded, lastFull, calls, serial, before>>

\* Line 51: json.dump of the reset record.
check_rate_limit_dump(p) ==
    /\ pc[p] = "c51"
    /\ file' = Dump(file, data[p])
    /\ lastFull' = file'
    /\ recorded' = 0
    /\ Goto(p, "c54")
    /\ UNCHANGED <<clock, stack, data, now, ret, verdict, rd, calls, serial, before>>

\* Lines 54-57: the verdict and the count.
check_rate_limit_result(p) ==
    CheckRet(~LimitExceeded(data[p].usage_count), data[p].usage_count)

check_rate_limit_return(p) ==
    /\ pc[p] = "c54"
    /\ Return(p, check_rate_limit_result(p))
    /\ UNCHANGED <<clock, file, verdict, recorded, lastFull, calls, serial, before>>

\* ------------------------------------------------------------ increment_usage

\* Lines 61-65: load the record; on FileNotFoundError or JSONDecodeError
\* call init_usage_tracking() and go on at line 66.
increment_usage_load(p) ==
    /\ pc[p] = "u62"
    /\ IF LoadOutcome(file) = "ok"
         THEN /\ data' = [data EXCEPT ![p] = file]
              /\ rd' = [rd EXCEPT ![p] = file]
              /\ Goto(p, "u70")
              /\ UNCHANGED stack
         ELSE /\ Call(p, "i27", "u66")
              /\ UNCHANGED <<data, rd>>
    /\ UNCHANGED <<clock, file, now, ret, verdict, recorded, lastFull, calls, serial, before>>

\* Lines 66-67: load again, outside any try.
increment_usage_reload(p) ==
    /\ pc[p] = "u66"
    /\ IF LoadOutcome(file) = "ok"
         THEN /\ data' = [data EXCEPT ![p] = file]
              /\ rd' = [rd EXCEPT ![p] = file]
              /\ Goto(p, "u70")
              /\ UNCHANGED <<stack, ret, now, verdict>>
         ELSE Raise(p, LoadOutcome(file), "increment_usage")
    /\ UNCHANGED <<clock, file, recorded, lastFull, calls, serial, before>>

\* Lines 70-84: KeyError on a content without the keys; otherwise read the
\* clock, reset the local record when the hour is over, count and log.
increment_usage_count(p) ==
    /\ pc[p] = "u70"
    /\ IF data[p].kind # "record"
         THEN /\ Raise(p, "KeyError", "increment_usage")
         ELSE /\ now' = [now EXCEPT ![p] = clock]
              /\ data' = [data EXCEPT ![p] =
                    Increment(IF WindowElapsed(fromisoformat(data[p].last_reset), clock)
                                THEN ResetRecord(clock) ELSE data[p],
                              clock)]
              /\ Goto(p, "u86")
              /\ UNCHANGED <<stack, ret, verdict, rd>>
    /\ UNCHANGED <<clock, file, recorded, lastFull, calls, serial, before>>

\* Line 86: open(..., "w").
increment_usage_open(p) ==
    /\ pc[p] = "u86"
    /\ file' = OpenForWrite
    /\ Goto(p, "u87")
    /\ UNCHANGED <<clock, stack, data, now, ret, verdict, rd, recorded, lastFull, calls, serial, before>>

\* Line 86, the storage refusing the write: open raises OSError, which
\* nothing in increment_usage or in main catches. The file is left as it was.
increment_usage_open_fails(p) ==
    /\ pc[p] = "u86"
    /\ Raise(p, "OSError", "increment_usage")
    /\ UNCHANGED <<clock, file, recorded, lastFull, calls, serial, before>>

\* Line 87: json.dump of the counted record.
increment_usage_dump(p) ==
    /\ pc[p] = "u87"
    /\ file' = Dump(file, data[p])
    /\ lastFull' = file'
    /\ recorded' = IF data[p].last_reset # rd[p].last_reset
                     THEN 1 ELSE recorded + 1
    /\ Goto(p, "u89")
    /\ UNCHANGED <<clock, stack, data, now, ret, verdict, rd, calls, serial, before>>

\* Line 89: return data["usage_count"].
increment_usage_result(p) == RecordRet(data[p].usage_count)

increment_usage_return(p) ==
    /\ pc[p] = "u89"
    /\ Return(p, increment_usage_result(p))
    /\ UNCHANGED <<clock, file, verdict, recorded, lastFull, calls, serial, before>>

\* ------------------------------------------------------------ main

\* Lines 253-257: is_allowed, current_usage = check_rate_limit(); a denied
\* run returns, an allowed one starts the pipeline.
\* The gate of lines 254-257 gone wrong: the run goes on whatever the verdict.
main_gate_open(p) ==
    /\ pc[p] = "m254"
    /\ verdict' = [verdict EXCEPT ![p] =
          [is_allowed |-> ret[p].allowed, current_usage |-> ret[p].count, set |-> TRUE]]
    /\ Goto(p, "m260")
    /\ ret' = [ret EXCEPT ![p] = NoRet]
    /\ UNCHANGED <<clock, file, stack, data, now, rd, recorded, lastFull, calls, serial, before>>

main_gate(p) ==
    /\ pc[p] = "m254"
    /\ IF ret[p].allowed
         THEN /\ verdict' = [verdict EXCEPT ![p] =
                    [is_allowed |-> ret[p].allowed, current_usage |-> ret[p].count,
                     set |-> TRUE]]
              /\ Goto(p, "m260")
              /\ UNCHANGED before
         ELSE /\ verdict' = [verdict EXCEPT ![p] = NoVerdict]
              /\ Goto(p, "idle")
              /\ before' = [before EXCEPT ![p] = NoData]
    /\ ret' = [ret EXCEPT ![p] = NoRet]
    /\ UNCHANGED <<clock, file, stack, data, now, rd, recorded, lastFull, calls, serial>>

\* Lines 259-269: img2text, generate_story and text2speech all returned;
\* increment_usage() is called.
main_pipeline_done(p) ==
    /\ pc[p] = "m260"
    /\ Call(p, "u62", "m272")
    /\ UNCHANGED <<clock, file, data, now, ret, verdict, rd, recorded, lastFull, calls, serial, before>>

\* Lines 259-266: one of the collaborators raised; the run ends there.
main_pipeline_fails(p) ==
    /\ pc[p] = "m260"
    /\ Raise(p, "CollaboratorError", "main")
    /\ UNCHANGED <<clock, file, recorded, lastFull, calls, serial, before>>

\* Lines 272-317: show new_usage_count and the results; the run ends.
main_show(p) ==
    /\ pc[p] = "m272"
    /\ Goto(p, "idle")
    /\ ret' = [ret EXCEPT ![p] = NoRet]
    /\ verdict' = [verdict EXCEPT ![p] = NoVerdict]
    /\ before' = [before EXCEPT ![p] = NoData]
    /\ UNCHANGED <<clock, file, stack, data, now, rd, recorded, lastFull, calls, serial>>

\* ------------------------------------------------------------ specifications

\* What main does, and the functions under it: increment_usage is reached
\* through line 269 only.
MainStep(p) ==
    \/ call_check_rate_limit(p)
    \/ main_init_usage_tracking(p)
    \/ main_click(p)
    \/ main_aborted(p)
    \/ init_usage_tracking_exists(p)
    \/ init_usage_tracking_open(p)
    \/ init_usage_tracking_dump(p)
    \/ check_rate_limit_load(p)
    \/ check_rate_limit_return_fresh(p)
    \/ check_rate_limit_reset(p)
    \/ check_rate_limit_open(p)
    \/ check_rate_limit_dump(p)
    \/ check_rate_limit_return(p)
    \/ increment_usage_load(p)
    \/ increment_usage_reload(p)
    \/ increment_usage_count(p)
    \/ increment_usage_open(p)
    \/ increment_usage_open_fails(p)
    \/ increment_usage_dump(p)
    \/ increment_usage_return(p)
    \/ main_gate(p)
    \/ main_pipeline_done(p)
    \/ main_pipeline_fails(p)
    \/ main_show(p)

\* The same, and increment_usage called on its own.
Step(p) ==
    \/ call_increment_usage(p)
    \/ MainStep(p)

\* Any number of callers, interleaved at every file and clock access.
Next == Tick \/ \E p \in Callers : Step(p)

\* The script as deployed: every call comes from main.
MainNext == Tick \/ \E p \in Callers : MainStep(p)

Spec == Init /\ [][Next]_vars

\* The same calls, one at a time.
SeqSpec == SerialInit /\ [][Next]_vars

\* Runs of main, one at a time.
MainSpec == SerialInit /\ [][MainNext]_vars

\* ------------------------------------------------------------ properties

\* The count of record r once the reset pending at time t is applied.
PostResetCount(r, t) ==
    IF t - fromisoformat(r.last_reset) >= W THEN 0 ELSE r.usage_count

\* C1 (quota enforcement): whatever record check_rate_limit loaded and
\* whatever the time, it denies exactly when the count is at least Q once the
\* pending reset is applied, and the count it returns is that count.
C1_QuotaEnforcement ==
    \A p \in Callers :
        pc[p] = "c54" =>
            /\ check_rate_limit_result(p).allowed = ~(PostResetCount(rd[p], now[p]) >= Q)
            /\ check_rate_limit_result(p).count = PostResetCount(rd[p], now[p])

\* A check that denies: the window is running and the quota is used up.
C1_Witness ==
    \E p \in Callers :
        /\ pc[p] = "c54"
        /\ rd[p].usage_count = Q
        /\ now[p] - fromisoformat(rd[p].last_reset) < W
        /\ check_rate_limit_result(p) = CheckRet(FALSE, Q)

\* C2 (monotonic count): with one call at a time, the persisted count and
\* the length of the history both equal the number of increment_usage calls
\* made in the window, the N-th of them returns N, and a check returns that
\* number and allows exactly while it is below Q.
C2_MonotonicCount ==
    /\ file.kind = "record" =>
            /\ file.usage_count = recorded
            /\ Len(file.usage_history) = recorded
    /\ \A p \in Callers :
            /\ pc[p] = "u89" => increment_usage_result(p).count = recorded
            /\ pc[p] = "c54" => check_rate_limit_result(p) = CheckRet(recorded < Q, recorded)

\* A service that found no file (the record was created at tick 1, before
\* any reset is possible) has answered three increment_usage calls and now
\* denies the check that follows them with (False, 3).
C2_Witness ==
    \E p \in Callers :
        /\ pc[p] = "c54"
        /\ calls = 4
        /\ file.kind = "record"
        /\ fromisoformat(file.last_reset) = 1
        /\ Len(file.usage_history) = 3
        /\ check_rate_limit_result(p) = CheckRet(FALSE, 3)

\* C3 (no lost update): no two increment_usage calls have both loaded the
\* same record and both written their count of it.
C3_NoLostUpdate ==
    \A p, q \in Callers :
        (p # q /\ pc[p] = "u89" /\ pc[q] = "u89") => rd[p] # rd[q]

\* p executes a load (lines 34-35, 62-63 or 66-67) in this step.
LoadStep(p) == pc[p] \in {"c34", "u62", "u66"} /\ pc'[p] # pc[p]

\* q is between the open (line 86 or 50) and the json.dump of a save.
Saving(q) == pc[q] \in {"u87", "c51"}

\* C4 (save atomicity): no load reads the file that another caller's save
\* has opened and not yet written; and check_rate_limit never answers
\* (True, 0) from line 38 while the last completely written record is that
\* of a running window with the quota used up.
C4_SaveAtomic ==
    [][\A p \in Callers :
          /\ LoadStep(p) =>
                ~(file.kind = "truncated" /\ \E q \in Callers \ {p} : Saving(q))
          /\ (pc[p] = "c38" /\ pc'[p] # "c38") =>
                ~ /\ lastFull.kind = "record"
                  /\ lastFull.usage_count >= Q
                  /\ clock - fromisoformat(lastFull.last_reset) < W]_vars

\* C5 (self-healing): no call ends with an exception of the tracker file, and
\* once init_usage_tracking has returned to the except branch (line 38 or
\* line 66) the file holds a zero record.
C5_SelfHealing ==
    \A p \in Callers :
        /\ pc[p] = "raised" => ret[p].fn = "main"
        /\ pc[p] \in {"c38", "u66"} =>
              /\ file.kind = "record"
              /\ file.usage_count = 0
              /\ file.usage_history = <<>>

\* C6 (verdict on a bad store): check_rate_limit never ends with an
\* exception, whatever the file holds.
C6_CheckNeverFails ==
    \A p \in Callers : pc[p] = "raised" => ret[p].fn # "check_rate_limit"

\* C7 (reset timing): with one call at a time, a check at time t of a record
\* with window start T0 leaves the record as loaded when t - T0 < W, and
\* when t - T0 >= W holds and has persisted the zero record stamped t and
\* answers (True, 0).
C7_ResetTiming ==
    \A p \in Callers :
        pc[p] = "c54" =>
            IF now[p] - fromisoformat(rd[p].last_reset) < W
              THEN data[p] = rd[p] /\ file = rd[p]
              ELSE /\ file = data[p]
                   /\ file.kind = "record"
                   /\ file.usage_count = 0
                   /\ file.last_reset = isoformat(now[p])
                   /\ file.usage_history = <<>>
                   /\ check_rate_limit_result(p) = CheckRet(TRUE, 0)

\* A used-up window checked exactly W after its start: reset, and allowed.
C7_Witness ==
    \E p \in Callers :
        /\ pc[p] = "c54"
        /\ rd[p].usage_count = Q
        /\ now[p] - fromisoformat(rd[p].last_reset) = W
        /\ file.usage_count = 0
        /\ check_rate_limit_result(p).allowed

\* C8 (ledger invariant): every record in the file counts exactly the
\* entries of its history.
C8_CountIsHistoryLength ==
    file.kind = "record" => file.usage_count = Len(file.usage_history)

\* A record written by two increment_usage calls after a reset.
C8_Witness ==
    /\ file.kind = "record"
    /\ fromisoformat(file.last_reset) >= W
    /\ file.usage_count = 2
    /\ Len(file.usage_history) = 2

\* p is inside check_rate_limit (or inside the init_usage_tracking it called).
InCheck(p) ==
    \/ pc[p] \in {"c34", "c38", "c41", "c50", "c51", "c54"}
    \/ pc[p] \in {"i27", "i28", "i29"} /\ Head(stack[p]) = "c38"

\* C9 (lazy reset idempotence): with one call at a time, no step of a check
\* changes a record whose window has not elapsed - so a check before elapse,
\* and every check after the first one that follows the elapse, leaves the
\* file as it is - and the write of a check is the zero record stamped with
\* the time of that check.
C9_LazyResetIdempotent ==
    [][/\ ( /\ \E p \in Callers : InCheck(p)
            /\ file.kind = "record"
            /\ clock - fromisoformat(file.last_reset) < W ) => file' = file
       /\ \A p \in Callers :
            (pc[p] = "c51" /\ pc'[p] = "c54") =>
                /\ file'.kind = "record"
                /\ file'.usage_count = 0
                /\ file'.usage_history = <<>>
                /\ file'.last_reset = isoformat(now[p])]_vars

\* A check that loaded, later in the same window, the record an earlier
\* check had reset, and is about to return without having written.
C9_Witness ==
    \E p \in Callers :
        /\ pc[p] = "c54"
        /\ rd[p] = file
        /\ file.usage_count = 0
        /\ fromisoformat(file.last_reset) >= W
        /\ now[p] > fromisoformat(file.last_reset)

\* C10 (check-then-act race): when two script runs were both allowed at
\* count 2 and both have completed increment_usage within the window the
\* service started in, the file holds the count 4.
C10_RaceCountsBoth ==
    \A p, q \in Callers :
        ( /\ p # q
          /\ pc[p] = "m272" /\ pc[q] = "m272"
          /\ verdict[p].set /\ verdict[p].current_usage = 2
          /\ verdict[q].set /\ verdict[q].current_usage = 2
          /\ clock < W )
        => (file.kind = "record" /\ file.usage_count = 4)

\* Caller p is inside the increment_usage that line 269 of main called.
InRecordOfMain(p) == \E i \in DOMAIN stack[p] : stack[p][i] = "m272"

\* The run of main of caller p is over without line 269: the gate denied it
\* (lines 254-257), or a collaborator of lines 259-266 raised.
Denied(p) == pc[p] = "m254" /\ ~ret[p].allowed
PipelineFailed(p) == pc[p] = "raised" /\ ret[p].fn = "main"

\* C11 (record is a post-completion commit), as the code has it: in a run of
\* main, increment_usage runs only past the gate, with the verdict of this
\* run's check allowing it; a denied run leaves the file as it found it, and
\* a run whose pipeline failed leaves it as found or as the lazy reset of its
\* own check wrote it (count 0, empty history, a window started at least W
\* after the one found) - it never counts.
C11_PostCompletionCommit ==
    \A p \in Callers :
        /\ InRecordOfMain(p) => (verdict[p].set /\ verdict[p].is_allowed)
        /\ Denied(p) => file = before[p]
        /\ PipelineFailed(p) =>
              \/ file = before[p]
              \/ /\ file.kind = "record"
                 /\ file.usage_count = 0
                 /\ file.usage_history = <<>>
                 /\ before[p].kind = "record" =>
                       fromisoformat(file.last_reset)
                         - fromisoformat(before[p].last_reset) >= W

\* A run whose check reset a used-up window and whose pipeline then failed.
C11_Witness ==
    \E p \in Callers :
        /\ PipelineFailed(p)
        /\ before[p].kind = "record"
        /\ before[p].usage_count = Q
        /\ file.usage_count = 0

\* C11 as stated: a denied run and a run whose pipeline failed leave the
\* persisted count as they found it.
C11_NeverChangesCount ==
    \A p \in Callers :
        (Denied(p) \/ PipelineFailed(p)) =>
            file.usage_count = before[p].usage_count

\* C12 (a failed save does not unwind the gated action): a run of main whose
\* pipeline completed - the story and the audio exist - is not ended by the
\* OSError of increment_usage's save: it still gets to lines 272-300, which
\* show the story and play the audio.
C12_WriteFailureKeepsResults ==
    \A p \in Callers :
        ~( /\ pc[p] = "raised"
           /\ ret[p].exc = "OSError"
           /\ ret[p].fn = "increment_usage"
           /\ verdict[p].set /\ verdict[p].is_allowed )

\* C13 (per-window state machine), for runs of main one at a time: the
\* persisted count never exceeds Q; increment_usage never counts on top of a
\* record that is at Q (EXHAUSTED); the persisted count rises
\* only by the save of increment_usage, by one; and it falls only once W has
\* elapsed since the persisted window start, with a new window start
\* persisted - to 0 by the reset of a check, to 1 by an increment_usage that
\* reset before counting.
C13_WindowStateMachine ==
    /\ [](/\ file.kind = "record" => file.usage_count <= Q
          /\ \A p \in Callers :
                pc[p] \in {"u86", "u87", "u89"} => rd[p].usage_count < Q)
    /\ [][(lastFull.kind = "record" /\ lastFull'.kind = "record") =>
            /\ lastFull'.usage_count > lastFull.usage_count =>
                  /\ \E p \in Callers : pc[p] = "u87" /\ pc'[p] = "u89"
                  /\ lastFull'.usage_count = lastFull.usage_count + 1
            /\ lastFull'.usage_count < lastFull.usage_count =>
                  /\ clock - fromisoformat(lastFull.last_reset) >= W
                  /\ lastFull'.last_reset # lastFull.last_reset
                  /\ \/ lastFull'.usage_count = 0
                           /\ \E p \in Callers : pc[p] = "c51"
                     \/ lastFull'.usage_count = 1
                           /\ \E p \in Callers : pc[p] = "u87"]_vars

\* A run of main that was allowed at Q - 1 has saved the count Q.
C13_Witness ==
    \E p \in Callers :
        /\ pc[p] = "u89"
        /\ InRecordOfMain(p)
        /\ rd[p].usage_count = Q - 1
        /\ file.kind = "record"
        /\ file.usage_count = Q

\* The log entry of a use made at time t (lines 81-84).
UseAt(t) == [timestamp |-> isoformat(t), action |-> "generate_story"]

\* C14 (record resets before counting): with one call at a time, an
\* increment_usage that read the clock W or more after the loaded window
\* start, whatever the loaded count, has persisted count 1, exactly one
\* history entry and that time as window start, and returns 1; one that
\* read the clock earlier has persisted the loaded count plus one with one
\* entry appended and the window start kept, and returns that count.
C14_RecordResetsFirst ==
    \A p \in Callers :
        pc[p] = "u89" =>
            IF now[p] - fromisoformat(rd[p].last_reset) >= W
              THEN /\ file = Rec(1, isoformat(now[p]), <<UseAt(now[p])>>)
                   /\ increment_usage_result(p).count = 1
              ELSE /\ file = Rec(rd[p].usage_count + 1, rd[p].last_reset,
                                 Append(rd[p].usage_history, UseAt(now[p])))
                   /\ increment_usage_result(p).count = rd[p].usage_count + 1

\* An increment_usage that found the quota used up in an elapsed window and
\* has persisted the count 1.
C14_Witness ==
    \E p \in Callers :
        /\ pc[p] = "u89"
        /\ rd[p].usage_count = Q
        /\ Len(rd[p].usage_history) = Q
        /\ now[p] - fromisoformat(rd[p].last_reset) >= W
        /\ file.usage_count = 1

\* C15 (the count is monotonic within a window, under concurrency): in any
\* interleaving of checks and increment_usage calls, a save of a check or of
\* an increment_usage lowers the persisted count only when W has elapsed
\* since the persisted window start - so the reset write of a check never
\* replaces the count an increment_usage has saved in the window that is
\* now running.
C15_MonotonicInWindow ==
    [][( /\ \E p \in Callers : \/ (pc[p] = "c51" /\ pc'[p] = "c54")
                                \/ (pc[p] = "u87" /\ pc'[p] = "u89")
         /\ lastFull.kind = "record" /\ lastFull'.kind = "record"
         /\ lastFull'.usage_count < lastFull.usage_count )
       => clock - fromisoformat(lastFull.last_reset) >= W]_vars

\* C16 (record is unconditional): with one call at a time, an
\* increment_usage that loaded a count of Q or more in a window still running
\* has persisted that count plus one, with one history entry more, and
\* returns it - a value above Q.
C16_RecordUnconditional ==
    \A p \in Callers :
        ( /\ pc[p] = "u89"
          /\ rd[p].usage_count >= Q
          /\ now[p] - fromisoformat(rd[p].last_reset) < W )
        => /\ file.kind = "record"
           /\ file.usage_count = rd[p].usage_count + 1
           /\ Len(file.usage_history) = Len(rd[p].usage_history) + 1
           /\ increment_usage_result(p).count = rd[p].usage_count + 1
           /\ increment_usage_result(p).count > Q

\* An increment_usage called on its own with the quota used up: the file
\* holds Q + 1.
C16_Witness ==
    \E p \in Callers :
        /\ pc[p] = "u89"
        /\ ~InRecordOfMain(p)
        /\ rd[p].usage_count = Q
        /\ now[p] - fromisoformat(rd[p].last_reset) < W
        /\ file.usage_count = Q + 1

\* C17 (window start is written only by initialization and reset): with one
\* call at a time, a step that changes the persisted last_reset of a record
\* is the save of a check or of an increment_usage that read the clock W or
\* more after the loaded window start, and it persists that clock reading;
\* so a check or an increment_usage made while the window runs leaves
\* last_reset as it was. (A file that held no record gets its first
\* last_reset from init_usage_tracking.)
C17_WindowStartFrame ==
    [][/\ ( /\ lastFull.kind = "record" /\ lastFull'.kind = "record"
            /\ lastFull'.last_reset # lastFull.last_reset )
          => \E p \in Callers :
                /\ pc[p] \in {"c51", "u87"}
                /\ now[p] - fromisoformat(lastFull.last_reset) >= W
                /\ lastFull'.last_reset = isoformat(now[p])
       /\ ( /\ lastFull.kind # "record" /\ lastFull'.kind = "record" )
          => \E p \in Callers :
                /\ pc[p] = "i29"
                /\ lastFull'.last_reset = isoformat(clock)
       /\ \A p \in Callers :
            ( /\ pc'[p] \in {"c54", "u89"}
              /\ now'[p] - fromisoformat(rd'[p].last_reset) < W )
            => file'.last_reset = rd'[p].last_reset]_vars

\* An increment_usage made later in the window that has saved its count
\* under the window start it found.
C17_Witness ==
    \E p \in Callers :
        /\ pc[p] = "u89"
        /\ now[p] > fromisoformat(rd[p].last_reset)
        /\ now[p] - fromisoformat(rd[p].last_reset) < W
        /\ file.usage_count = rd[p].usage_count + 1
        /\ file.last_reset = rd[p].last_reset

====
